---- MODULE Spec2Model ----
(***************************************************************************)
(* Model of src/app.py: one execution of the Streamlit script.  The        *)
(* sidebar widgets return their values, and when the button was pressed    *)
(* the script runs the Monte Carlo engine (lines 94-110), the KPIs (lines  *)
(* 113-115) and the verdict branch (lines 121-145).                        *)
(*                                                                         *)
(* Units.  Money is counted in rupiah.  A uniform in [0,1] is counted in    *)
(* quarters (u/UDen), a np.random.rand draw and the shock probability in   *)
(* hundredths.  safe_budget_95 and gap are kept in hundredths of a rupiah, *)
(* because the linear interpolation of np.percentile has a fraction of     *)
(* k/100.  A float that can be NaN is a record [nan, v].                   *)
(*                                                                         *)
(* Rounding.  The triangular and log-normal quantiles are irrational.  The *)
(* log-normal quantile is kept to the nearest rupiah; the triangular one   *)
(* is computed from the square root to four decimals, which is exact when  *)
(* the root has at most four decimals and within Rp 100 otherwise.  Every  *)
(* total of the model is within Rp 250 of the total of the script.         *)
(*   - In Spec and SpecKPI the budgets are chosen at least Rp 750 away     *)
(*     from every total and from every safe_budget_95 the model reaches    *)
(*     (NoNearTie), so that each comparison of the script has the outcome  *)
(*     it has on the unrounded values.                                     *)
(*   - InitTie adds the runs in which a total EQUALS the budget.  float64  *)
(*     keeps 53 significant bits, so a sum in [2^52, 2^53) is a whole      *)
(*     number of rupiah.  With food parameters beyond 2^52 and a shock of  *)
(*     -2^52 the partial sums of line 108 are such sums, the fraction of   *)
(*     the lifestyle cost is rounded away, and the last addition, which    *)
(*     is exact, leaves a whole number of rupiah: the total of the model   *)
(*     is the total of the script, bit for bit.  A Python int beyond the   *)
(*     integers of the model is a record [w, v], the value w * 2^52 + v.   *)
(***************************************************************************)
EXTENDS Integers, Sequences, FiniteSets

VARIABLES
    BUDGET, makan_min, makan_mode, makan_max, N_SIMULATIONS,
    prob_darurat, biaya_darurat_val, run_sim,
    pc, exception, draws,
    u_makan, u_trans, u_life, biaya_kost,
    c_makan, biaya_makan, biaya_transport, biaya_lifestyle,
    rand, is_darurat, biaya_darurat, total_biaya, df,
    prob_gagal, safe_budget_95, gap,
    verdict, persen_terpenuhi

widgets == <<BUDGET, makan_min, makan_mode, makan_max, N_SIMULATIONS,
             prob_darurat, biaya_darurat_val, run_sim>>
samples == <<u_makan, u_trans, u_life, biaya_kost>>
costs   == <<c_makan, biaya_makan, biaya_transport, biaya_lifestyle>>
shock   == <<rand, is_darurat, biaya_darurat, total_biaya, df>>
kpi     == <<prob_gagal, safe_budget_95, gap>>
banner  == <<verdict, persen_terpenuhi>>
vars    == <<widgets, pc, exception, draws, samples, costs, shock, kpi, banner>>

----------------------------------------------------------------------------
(* Bounds of the model *)

\* largest trial count of the specification Spec
MaxN == 2
\* the statistics specification SpecKPI runs 20*k trials, k in 1..MaxK
MaxK == 2

(* Program constants, in rupiah *)
KostMean   == 850000
KostStd    == 50000
TransLoc   == 150000
TransScale == 300000
\* stats.lognorm.ppf at the sliders' defaults lifestyle_mu = 12.5 and
\* lifestyle_sigma = 0.4, at the quartiles 1/4, 2/4, 3/4, to the nearest rupiah:
\* 204,884.99, 268,337.29 (= exp(12.5)) and 351,440.57
LifeLow    == 204885
LifeMid    == 268337
LifeHigh   == 351441
\* a uniform is u / UDen
UDen       == 4

----------------------------------------------------------------------------
(* Floats that can be NaN *)

NaN    == [nan |-> TRUE, v |-> 0]
Num(x) == [nan |-> FALSE, v |-> x]
\* a float variable the script has not assigned yet
Unset  == [nan |-> TRUE, v |-> -1]

\* IEEE comparisons: false as soon as one side is NaN
FLt(a, b) == ~a.nan /\ ~b.nan /\ a.v < b.v
FGt(a, b) == ~a.nan /\ ~b.nan /\ a.v > b.v
FGe(a, b) == ~a.nan /\ ~b.nan /\ a.v >= b.v
FAdd(a, b) == IF a.nan \/ b.nan THEN NaN ELSE Num(a.v + b.v)
FSub(a, b) == IF a.nan \/ b.nan THEN NaN ELSE Num(a.v - b.v)

\* floor of the square root of n, by bisection between lo and hi
RECURSIVE IsqrtBetween(_, _, _)
IsqrtBetween(n, lo, hi) ==
    IF lo >= hi THEN lo
    ELSE LET mid == (lo + hi + 1) \div 2
         IN  IF mid * mid <= n THEN IsqrtBetween(n, mid, hi)
             ELSE IsqrtBetween(n, lo, mid - 1)
\* (the root of a 32-bit integer is below 46341)
Isqrt(n) == IsqrtBetween(n, 0, IF n < 46340 THEN n ELSE 46340)

RECURSIVE Gcd(_, _)
Gcd(a, b) == IF b = 0 THEN a ELSE Gcd(b, a % b)

\* sqrt(a / b) to the nearest ten-thousandth, for a fraction whose lowest terms
\* are small
SqrtE4(a, b) ==
    IF a = 0 THEN 0
    ELSE LET g == Gcd(a, b)
             x == (100000000 * (a \div g)) \div (b \div g)
             r == Isqrt(x)
         IN  IF x - r * r > r THEN r + 1 ELSE r

\* x * r for r in ten-thousandths and x >= 0, to the nearest integer (the product
\* is taken in two parts to stay inside 32 bits)
ScaleE4(x, r) == (x \div 10000) * r + ((x % 10000) * r + 5000) \div 10000

----------------------------------------------------------------------------
(* Values the widgets and the random source are drawn from *)

\* BUDGET: st.number_input without min_value, so negative values are accepted
Budgets == {-500000, 2500000, 3750000}
\* (makan_min, makan_mode, makan_max): ordered, boundary, and out-of-order triples
MakanTriples == { <<900000, 1500000, 2400000>>, <<900000, 900000, 2400000>>,
                  <<900000, 2400000, 2400000>>, <<2375000, 2375000, 2400000>>,
                  <<1500000, 900000, 2400000>>, <<900000, 2400000, 1500000>>,
                  <<1500000, 1500000, 1500000>>, <<900000, 1500000, 900000>> }
\* prob_darurat slider 0..20 (per cent)
Probs == {0, 5, 20}
\* biaya_darurat_val
Magnitudes == {-500000, 0, 1500000}
\* one row of np.random.multivariate_normal, in multiples of the quartile z-score 0.6745
ZTriples == { <<-1, -1, 0>>, <<1, 1, 1>> }
\* np.random.normal(850000, 50000): mean -/+ one standard deviation
KostValues == {KostMean - KostStd, KostMean + KostStd}
\* np.random.rand, in hundredths
RandValues == {2, 5}

Arrays(n, S) == [1..n -> S]

----------------------------------------------------------------------------
(* The math engine *)

\* stats.norm.cdf at the z-scores -0.6745, 0, 0.6745: the quartiles 1/4, 2/4, 3/4
NormCdf(z) == z + 2
\* stats.norm.ppf, its inverse (used inside lognorm.ppf)
NormPpf(u) == u - 2

\* mutant of CorrelatedSamples: the sampler is asked for n - 1 rows
CorrelatedSamplesShort(mv, col) == [i \in 1..(Len(mv) - 1) |-> NormCdf(mv[i][col])]

\* generate_correlated_samples: the three columns of mv_norm through norm.cdf
CorrelatedSamples(mv, col) == [i \in 1..Len(mv) |-> NormCdf(mv[i][col])]

\* c_makan = (makan_mode - makan_min) / (makan_max - makan_min), as a fraction
CMakan(mn, md, mx) == [num |-> md - mn, den |-> mx - mn]

\* scipy's argument check of triang.ppf: 0 <= c <= 1, and scale > 0
TriangArgCheck(c, scale) ==
    /\ c.num = 0 \/ (c.num > 0 /\ c.den > 0) \/ (c.num < 0 /\ c.den < 0)
    /\ (IF c.num < 0 THEN -c.num ELSE c.num) <= (IF c.den < 0 THEN -c.den ELSE c.den)
    /\ scale > 0

\* stats.triang.ppf(q, c, loc, scale) at q = u/UDen, to the nearest rupiah of
\* loc + scale*sqrt(c*q) below c, loc + scale*(1 - sqrt((1-c)*(1-q))) from c on, the
\* root taken to four decimals; NaN when the argument check fails
TriangPpf(u, c, loc, scale) ==
    IF ~TriangArgCheck(c, scale) THEN NaN
    ELSE IF u * c.den < c.num * UDen
         THEN Num(loc + ScaleE4(scale, SqrtE4(c.num * u, c.den * UDen)))
         ELSE Num(loc + scale
                  - ScaleE4(scale, SqrtE4((c.den - c.num) * (UDen - u), c.den * UDen)))

\* stats.uniform.ppf(u, 150000, 300000) = loc + scale * u
UniformPpf(u, loc, scale) == loc + (scale * u) \div UDen

\* stats.lognorm.ppf(u, s, scale) = scale * exp(s * norm.ppf(u)), to the nearest
\* rupiah, at the quartiles
LognormPpf(u) ==
    IF NormPpf(u) < 0 THEN LifeLow
    ELSE IF NormPpf(u) = 0 THEN LifeMid
    ELSE LifeHigh

\* mutant of IsDarurat: the comparison is turned round
IsDaruratFlipped(r, p) == [i \in 1..Len(r) |-> r[i] > p]

\* is_darurat = np.random.rand(N) < prob_darurat
IsDarurat(r, p) == [i \in 1..Len(r) |-> r[i] < p]

\* biaya_darurat = np.where(is_darurat, biaya_darurat_val, 0)
BiayaDarurat(isd, val) == [i \in 1..Len(isd) |-> IF isd[i] THEN val ELSE 0]

\* mutant of TotalBiaya: the lifestyle term is left out
TotalBiayaNoLifestyle(kost, makan, trans, life, dar) ==
    [i \in 1..Len(kost) |->
        FAdd(FAdd(FAdd(Num(kost[i]), makan[i]), Num(trans[i])), Num(dar[i]))]

\* total_biaya = biaya_kost + biaya_makan + biaya_transport + biaya_lifestyle + biaya_darurat
TotalBiaya(kost, makan, trans, life, dar) ==
    [i \in 1..Len(kost) |->
        FAdd(FAdd(FAdd(FAdd(Num(kost[i]), makan[i]), Num(trans[i])), Num(life[i])),
             Num(dar[i]))]

\* ['Darurat' if x > 0 else 'Normal' for x in biaya_darurat]
StatusColumn(dar) == [i \in 1..Len(dar) |-> IF dar[i] > 0 THEN "Darurat" ELSE "Normal"]

----------------------------------------------------------------------------
(* KPIs *)

\* mutant of CountGreater: the totals below the budget are counted
RECURSIVE CountLess(_, _)
CountLess(a, b) ==
    IF a = <<>> THEN 0
    ELSE (IF FLt(Head(a), Num(b)) THEN 1 ELSE 0) + CountLess(Tail(a), b)

\* mutant of CountGreater: a total equal to the budget is counted as well
RECURSIVE CountGreaterOrEqual(_, _)
CountGreaterOrEqual(a, b) ==
    IF a = <<>> THEN 0
    ELSE (IF FGe(Head(a), Num(b)) THEN 1 ELSE 0) + CountGreaterOrEqual(Tail(a), b)

\* np.sum(total_biaya > BUDGET)
RECURSIVE CountGreater(_, _)
CountGreater(a, b) ==
    IF a = <<>> THEN 0
    ELSE (IF FGt(Head(a), Num(b)) THEN 1 ELSE 0) + CountGreater(Tail(a), b)

\* mutant of ProbGagal: the fraction is not turned into a percentage
ProbGagalAsFraction(a, b, n) == [num |-> CountGreater(a, b), den |-> n]

\* prob_gagal = (np.sum(total_biaya > BUDGET) / N_SIMULATIONS) * 100, as a fraction
ProbGagal(a, b, n) == [num |-> 100 * CountGreater(a, b), den |-> n]

RECURSIVE Insert(_, _)
Insert(x, s) ==
    IF s = <<>> THEN <<x>>
    ELSE IF x <= Head(s) THEN <<x>> \o s
    ELSE <<Head(s)>> \o Insert(x, Tail(s))

\* np.sort of the values of a (no NaN among them)
RECURSIVE Sorted(_)
Sorted(a) == IF a = <<>> THEN <<>> ELSE Insert(Head(a).v, Sorted(Tail(a)))

\* mutant of Percentile95: the 90th percentile is taken
Percentile90(a) ==
    IF \E i \in 1..Len(a) : a[i].nan THEN NaN
    ELSE LET s   == Sorted(a)
             n   == Len(a)
             idx == 90 * (n - 1)
             lo  == idx \div 100
             fr  == idx % 100
             hi  == IF lo + 1 <= n - 1 THEN lo + 1 ELSE n - 1
         IN  Num(100 * s[lo + 1] + fr * (s[hi + 1] - s[lo + 1]))

\* np.percentile(a, 95), method 'linear', in hundredths of a rupiah:
\* virtual index 0.95*(n-1), interpolated between its two neighbours;
\* NaN as soon as a holds a NaN
Percentile95(a) ==
    IF \E i \in 1..Len(a) : a[i].nan THEN NaN
    ELSE LET s   == Sorted(a)
             n   == Len(a)
             idx == 95 * (n - 1)
             lo  == idx \div 100
             fr  == idx % 100
             hi  == IF lo + 1 <= n - 1 THEN lo + 1 ELSE n - 1
         IN  Num(100 * s[lo + 1] + fr * (s[hi + 1] - s[lo + 1]))

\* gap = BUDGET - safe_budget_95, in hundredths
Gap(b, safe) == FSub(Num(100 * b), safe)

----------------------------------------------------------------------------
(* The progress bar *)

NoFrac == [k |-> "unset", num |-> 0, den |-> 1]
Frac(a, b) == [k |-> "num", num |-> a, den |-> b]
One == Frac(1, 1)

\* BUDGET / safe_budget_95: Python int by numpy float64 (no exception on zero)
TrueDiv(b, safe) ==
    IF safe.v = 0
    THEN [k |-> IF 100 * b > 0 THEN "inf" ELSE IF 100 * b < 0 THEN "-inf" ELSE "nan",
          num |-> 0, den |-> 1]
    ELSE IF safe.v > 0 THEN Frac(100 * b, safe.v) ELSE Frac(-(100 * b), -safe.v)

\* Python's min(x, 1.0): 1.0 only if 1.0 < x
PyMin(x, one) ==
    IF x.k = "inf" \/ (x.k = "num" /\ x.num * one.den > one.num * x.den) THEN one ELSE x

\* persen_terpenuhi = min(BUDGET / safe_budget_95, 1.0)
PersenTerpenuhi(b, safe) == PyMin(TrueDiv(b, safe), One)

\* st.progress accepts a float in [0.0, 1.0] and raises otherwise
ProgressAccepts(x) == x.k = "num" /\ 0 <= x.num /\ x.num <= x.den

----------------------------------------------------------------------------
(* One execution of the script *)

\* the widgets have returned their values; nothing is computed yet
Init ==
    /\ BUDGET \in Budgets
    /\ \E t \in MakanTriples :
          makan_min = t[1] /\ makan_mode = t[2] /\ makan_max = t[3]
    /\ N_SIMULATIONS \in 1..MaxN
    /\ prob_darurat \in Probs
    /\ biaya_darurat_val \in Magnitudes
    /\ run_sim \in BOOLEAN
    /\ pc = "start"
    /\ exception = "none"
    /\ draws = {}
    /\ u_makan = <<>> /\ u_trans = <<>> /\ u_life = <<>> /\ biaya_kost = <<>>
    /\ c_makan = [num |-> 0, den |-> 0]
    /\ biaya_makan = <<>> /\ biaya_transport = <<>> /\ biaya_lifestyle = <<>>
    /\ rand = <<>> /\ is_darurat = <<>> /\ biaya_darurat = <<>>
    /\ total_biaya = <<>>
    /\ df = [Total |-> <<>>, Status |-> <<>>]
    /\ prob_gagal = [num |-> 0, den |-> 0]
    /\ safe_budget_95 = Unset /\ gap = Unset
    /\ verdict = "none"
    /\ persen_terpenuhi = NoFrac

\* line 203-204: the button was not pressed
IdleInfo ==
    /\ pc = "start" /\ ~run_sim
    /\ pc' = "done"
    /\ UNCHANGED <<widgets, exception, draws, samples, costs, shock, kpi, banner>>

\* line 94: generate_correlated_samples(N_SIMULATIONS, correlation_strength)
GenerateCorrelatedSamples ==
    /\ pc = "start" /\ run_sim
    /\ \E mv \in Arrays(N_SIMULATIONS, ZTriples) :
          /\ u_makan' = CorrelatedSamples(mv, 1)
          /\ u_trans' = CorrelatedSamples(mv, 2)
          /\ u_life'  = CorrelatedSamples(mv, 3)
    /\ draws' = draws \cup {"multivariate_normal"}
    /\ pc' = "line96"
    /\ UNCHANGED <<widgets, exception, biaya_kost, costs, shock, kpi, banner>>

\* line 96: biaya_kost = np.random.normal(850000, 50000, N_SIMULATIONS)
DrawKost ==
    /\ pc = "line96"
    /\ biaya_kost' \in Arrays(N_SIMULATIONS, KostValues)
    /\ draws' = draws \cup {"normal"}
    /\ pc' = "line99"
    /\ UNCHANGED <<widgets, exception, u_makan, u_trans, u_life, costs, shock, kpi, banner>>

\* line 99 with makan_max == makan_min: the integer division raises
CMakanZeroDivision ==
    /\ pc = "line99" /\ makan_max - makan_min = 0
    /\ exception' = "ZeroDivisionError"
    /\ pc' = "crashed"
    /\ UNCHANGED <<widgets, draws, samples, costs, shock, kpi, banner>>

\* lines 99-103: c_makan and the three quantile transforms
ComposeQuantiles ==
    /\ pc = "line99" /\ makan_max - makan_min # 0
    /\ c_makan' = CMakan(makan_min, makan_mode, makan_max)
    /\ biaya_makan' = [i \in 1..Len(u_makan) |->
                          TriangPpf(u_makan[i], c_makan', makan_min, makan_max - makan_min)]
    /\ biaya_transport' = [i \in 1..Len(u_trans) |-> UniformPpf(u_trans[i], TransLoc, TransScale)]
    /\ biaya_lifestyle' = [i \in 1..Len(u_life) |-> LognormPpf(u_life[i])]
    /\ pc' = "line105"
    /\ UNCHANGED <<widgets, exception, draws, samples, shock, kpi, banner>>

\* lines 105-110: the shock draw, the shock cost, the totals and the DataFrame
DrawDarurat ==
    /\ pc = "line105"
    /\ rand' \in Arrays(N_SIMULATIONS, RandValues)
    /\ draws' = draws \cup {"rand"}
    /\ is_darurat' = IsDarurat(rand', prob_darurat)
    /\ biaya_darurat' = BiayaDarurat(is_darurat', biaya_darurat_val)
    /\ total_biaya' = TotalBiaya(biaya_kost, biaya_makan, biaya_transport,
                                 biaya_lifestyle, biaya_darurat')
    /\ df' = [Total |-> total_biaya', Status |-> StatusColumn(biaya_darurat')]
    /\ pc' = "line113"
    /\ UNCHANGED <<widgets, exception, samples, costs, kpi, banner>>

\* lines 113-115: prob_gagal, safe_budget_95, gap
ComputeKPI ==
    /\ pc = "line113"
    /\ prob_gagal' = ProbGagal(total_biaya, BUDGET, N_SIMULATIONS)
    /\ safe_budget_95' = Percentile95(total_biaya)
    /\ gap' = Gap(BUDGET, safe_budget_95')
    /\ pc' = "line121"
    /\ UNCHANGED <<widgets, exception, draws, samples, costs, shock, banner>>

\* lines 121-133: gap < 0, st.error, then the progress bar, which raises when
\* persen_terpenuhi is outside [0.0, 1.0]
VerdictInsufficient ==
    /\ pc = "line121" /\ FLt(gap, Num(0))
    /\ verdict' = "error"
    /\ persen_terpenuhi' = PersenTerpenuhi(BUDGET, safe_budget_95)
    /\ IF ProgressAccepts(persen_terpenuhi')
       THEN pc' = "done" /\ exception' = exception
       ELSE pc' = "crashed" /\ exception' = "StreamlitAPIException"
    /\ UNCHANGED <<widgets, draws, samples, costs, shock, kpi>>

\* lines 135-145: the else branch, st.success and a full progress bar
VerdictAdequate ==
    /\ pc = "line121" /\ ~FLt(gap, Num(0))
    /\ verdict' = "success"
    /\ pc' = "done"
    /\ UNCHANGED <<widgets, exception, draws, samples, costs, shock, kpi, persen_terpenuhi>>

Next ==
    \/ IdleInfo
    \/ GenerateCorrelatedSamples
    \/ DrawKost
    \/ CMakanZeroDivision
    \/ ComposeQuantiles
    \/ DrawDarurat
    \/ ComputeKPI
    \/ VerdictInsufficient
    \/ VerdictAdequate

Spec == Init /\ [][Next]_vars

----------------------------------------------------------------------------
(* The statistics on batches of 20*k trials.  The initial states are the   *)
(* states at line 113 of runs whose three draws are block arrays: the      *)
(* first a rows of mv_norm high, the first b housing draws low, the last   *)
(* c uniform draws below the shock probability.                            *)

KpiNs == {20 * k : k \in 1..MaxK}
KpiBudgets == {-500000, 2500000, 3000000, 3750000, 4250000, 5250000}
KpiMakanTriples == { <<900000, 1500000, 2400000>>, <<1500000, 900000, 2400000>> }
Cuts(n) == {0, 1, 2, n \div 20, n \div 20 + 1, n \div 2, n - 1, n}
Block(n, cut, x, y) == [i \in 1..n |-> IF i <= cut THEN x ELSE y]

InitKPI ==
    /\ BUDGET \in KpiBudgets
    /\ \E t \in KpiMakanTriples :
          makan_min = t[1] /\ makan_mode = t[2] /\ makan_max = t[3]
    /\ N_SIMULATIONS \in KpiNs
    /\ prob_darurat = 5
    /\ biaya_darurat_val = 1500000
    /\ run_sim = TRUE
    /\ pc = "line113"
    /\ exception = "none"
    /\ draws = {"multivariate_normal", "normal", "rand"}
    /\ \E a \in Cuts(N_SIMULATIONS) :
          LET mv == Block(N_SIMULATIONS, a, <<1, 1, 1>>, <<-1, -1, 0>>)
          IN  /\ u_makan = CorrelatedSamples(mv, 1)
              /\ u_trans = CorrelatedSamples(mv, 2)
              /\ u_life  = CorrelatedSamples(mv, 3)
    /\ \E b \in Cuts(N_SIMULATIONS) :
          biaya_kost = Block(N_SIMULATIONS, b, KostMean - KostStd, KostMean + KostStd)
    /\ c_makan = CMakan(makan_min, makan_mode, makan_max)
    /\ biaya_makan = [i \in 1..Len(u_makan) |->
                         TriangPpf(u_makan[i], c_makan, makan_min, makan_max - makan_min)]
    /\ biaya_transport = [i \in 1..Len(u_trans) |-> UniformPpf(u_trans[i], TransLoc, TransScale)]
    /\ biaya_lifestyle = [i \in 1..Len(u_life) |-> LognormPpf(u_life[i])]
    /\ \E c \in Cuts(N_SIMULATIONS) :
          rand = Block(N_SIMULATIONS, N_SIMULATIONS - c, 5, 2)
    /\ is_darurat = IsDarurat(rand, prob_darurat)
    /\ biaya_darurat = BiayaDarurat(is_darurat, biaya_darurat_val)
    /\ total_biaya = TotalBiaya(biaya_kost, biaya_makan, biaya_transport,
                                biaya_lifestyle, biaya_darurat)
    /\ df = [Total |-> total_biaya, Status |-> StatusColumn(biaya_darurat)]
    /\ prob_gagal = [num |-> 0, den |-> 0]
    /\ safe_budget_95 = Unset /\ gap = Unset
    /\ verdict = "none"
    /\ persen_terpenuhi = NoFrac

NextKPI ==
    \/ ComputeKPI
    \/ VerdictInsufficient
    \/ VerdictAdequate

SpecKPI == InitKPI /\ [][NextKPI]_vars

----------------------------------------------------------------------------
(* Runs in which a total equals the budget.  The number inputs accept every *)
(* integer up to 2^53 - 1 in absolute value.  The food parameters are       *)
(* 2^52 + 900,000, 2^52 + 1,650,000 and 2^52 + 2,400,000 (so c_makan is     *)
(* 0.5), the shock magnitude is -2^52 and the shock probability is at the   *)
(* slider's maximum, 20 per cent, above both values of the uniform draw:    *)
(* every trial is shocked.  Every row of mv_norm is (0, 0, 0), so the three *)
(* uniforms are exactly 1/2, the food cost is exactly 2^52 + 1,650,000 and  *)
(* the transport cost exactly 300,000.  The initial states are the states   *)
(* at line 113 of these runs.                                               *)

\* the Python int w * 2^52 + v
Wide(w, v) == [w |-> w, v |-> v]

\* x > 0 for such an integer (v is far below 2^52 in absolute value)
WidePositive(x) == x.w > 0 \/ (x.w = 0 /\ x.v > 0)

\* stats.triang.ppf with loc = w * 2^52 + v: _ppf(q, c) * scale + loc
TriangPpfWide(u, c, loc, scale) ==
    LET q == TriangPpf(u, c, loc.v, scale)
    IN  [nan |-> q.nan, w |-> loc.w, v |-> q.v]

\* np.where(is_darurat, biaya_darurat_val, 0) for a magnitude w * 2^52 + v
BiayaDaruratWide(isd, val) == [i \in 1..Len(isd) |-> IF isd[i] THEN val ELSE Wide(0, 0)]

\* line 108 in float64 when the food cost carries 2^52 and the shock cost -2^52:
\* the partial sums kost + makan, + transport, + lifestyle are in [2^52, 2^53), so
\* each is the whole number nearest to the real sum, which for whole housing,
\* food and transport costs takes the lifestyle cost to the nearest rupiah
\* (life[i]); the last addition takes 2^52 away again and is exact.  Defined for
\* the trials in which 2^52 cancels, which in these runs is every trial
TotalBiayaWide(kost, makan, trans, life, dar) ==
    [i \in 1..Len(kost) |->
        CASE makan[i].nan -> NaN
          [] ~makan[i].nan /\ makan[i].w + dar[i].w = 0 ->
                Num(kost[i] + makan[i].v + trans[i] + life[i] + dar[i].v)]

\* ['Darurat' if x > 0 else 'Normal' for x in biaya_darurat]
StatusColumnWide(dar) ==
    [i \in 1..Len(dar) |-> IF WidePositive(dar[i]) THEN "Darurat" ELSE "Normal"]

\* BUDGET: the two totals of these runs, housing + 1,650,000 + 300,000 + 268,337, and
\* the values one rupiah below and above them
TieBudgets == {k + 2218337 + e : k \in KostValues, e \in {-1, 0, 1}}

InitTie ==
    /\ BUDGET \in TieBudgets
    /\ makan_min = Wide(1, 900000)
    /\ makan_mode = Wide(1, 1650000)
    /\ makan_max = Wide(1, 2400000)
    /\ N_SIMULATIONS \in 1..MaxN
    /\ prob_darurat = 20
    /\ biaya_darurat_val = Wide(-1, 0)
    /\ run_sim = TRUE
    /\ pc = "line113"
    /\ exception = "none"
    /\ draws = {"multivariate_normal", "normal", "rand"}
    /\ LET mv == [i \in 1..N_SIMULATIONS |-> <<0, 0, 0>>]
       IN  /\ u_makan = CorrelatedSamples(mv, 1)
           /\ u_trans = CorrelatedSamples(mv, 2)
           /\ u_life  = CorrelatedSamples(mv, 3)
    /\ biaya_kost \in Arrays(N_SIMULATIONS, KostValues)
    \* the differences of line 99 are differences of Python ints: 2^52 drops out
    /\ c_makan = CMakan(makan_min.v, makan_mode.v, makan_max.v)
    /\ biaya_makan = [i \in 1..Len(u_makan) |->
                         TriangPpfWide(u_makan[i], c_makan, makan_min,
                                       makan_max.v - makan_min.v)]
    /\ biaya_transport = [i \in 1..Len(u_trans) |-> UniformPpf(u_trans[i], TransLoc, TransScale)]
    /\ biaya_lifestyle = [i \in 1..Len(u_life) |-> LognormPpf(u_life[i])]
    /\ rand \in Arrays(N_SIMULATIONS, RandValues)
    /\ is_darurat = IsDarurat(rand, prob_darurat)
    /\ biaya_darurat = BiayaDaruratWide(is_darurat, biaya_darurat_val)
    /\ total_biaya = TotalBiayaWide(biaya_kost, biaya_makan, biaya_transport,
                                    biaya_lifestyle, biaya_darurat)
    /\ df = [Total |-> total_biaya, Status |-> StatusColumnWide(biaya_darurat)]
    /\ prob_gagal = [num |-> 0, den |-> 0]
    /\ safe_budget_95 = Unset /\ gap = Unset
    /\ verdict = "none"
    /\ persen_terpenuhi = NoFrac

\* the runs of Spec together with the runs in which a total equals the budget
SpecTie == (Init \/ InitTie) /\ [][Next]_vars

----------------------------------------------------------------------------
(* Properties *)

\* the stages of a run, read off the program counter and the exception
Totalled == run_sim /\ (pc \in {"line113", "line121", "done"}
                        \/ exception = "StreamlitAPIException")
Composed == Totalled \/ (run_sim /\ pc = "line105")
KpiDone  == run_sim /\ (pc \in {"line121", "done"} \/ exception = "StreamlitAPIException")
\* the food parameters are outside the triangular domain
FoodInvalid == makan_min > makan_mode \/ makan_mode > makan_max \/ makan_min = makan_max
Trials == 1..N_SIMULATIONS

Dist(a, b) == IF a >= b THEN a - b ELSE b - a

\* in Spec and SpecKPI no total and no safe_budget_95 of the model lies within Rp 750
\* of the budget (the rounding of a total is below Rp 250): the comparisons of lines
\* 113 and 121 are decided by more than the rounding
NoNearTie ==
    /\ \A i \in 1..Len(total_biaya) :
          ~total_biaya[i].nan => Dist(total_biaya[i].v, BUDGET) >= 750
    /\ (KpiDone /\ ~safe_budget_95.nan) =>
          Dist(safe_budget_95.v, 100 * BUDGET) >= 75000

\* C1: every trial's total is housing + food + transport + lifestyle + shock, and the
\* shock term is the configured magnitude when the trial's uniform draw is below the
\* shock probability and 0 otherwise (a NaN food cost makes the total NaN).
C1_TotalIsSumOfFive ==
    Totalled =>
        \A i \in Trials :
            LET sh == IF rand[i] < prob_darurat THEN biaya_darurat_val ELSE 0
            IN  /\ biaya_darurat[i] = sh
                /\ total_biaya[i].nan = biaya_makan[i].nan
                /\ ~biaya_makan[i].nan =>
                       total_biaya[i].v = biaya_kost[i] + biaya_makan[i].v
                                          + biaya_transport[i] + biaya_lifestyle[i] + sh

\* C1 witness: a batch with a shocked trial carrying the magnitude and an unshocked one
C1_Witness ==
    /\ Totalled /\ biaya_darurat_val = 1500000
    /\ \E i, j \in Trials :
          /\ rand[i] < prob_darurat /\ total_biaya[i] = Num(biaya_kost[i] + biaya_makan[i].v
                                        + biaya_transport[i] + biaya_lifestyle[i] + 1500000)
          /\ ~(rand[j] < prob_darurat) /\ ~total_biaya[j].nan

\* C2: prob_gagal is 100 * (number of trials whose total is strictly above BUDGET) / N,
\* so a trial whose total equals BUDGET is not counted, and lies in [0, 100].
C2_ExceedanceIsStrictCount ==
    KpiDone =>
        /\ prob_gagal.den = N_SIMULATIONS
        /\ prob_gagal.num =
              100 * Cardinality({i \in Trials : ~total_biaya[i].nan
                                                /\ total_biaya[i].v > BUDGET})
        /\ 0 <= prob_gagal.num /\ prob_gagal.num <= 100 * prob_gagal.den

\* C2 witness: a batch of two with one total equal to the budget and one above it,
\* reported as 50 per cent
C2_Witness ==
    /\ KpiDone /\ N_SIMULATIONS = 2
    /\ \E i, j \in Trials :
          /\ total_biaya[i] = Num(BUDGET)
          /\ FGt(total_biaya[j], Num(BUDGET))
    /\ prob_gagal.num = 100 /\ prob_gagal.den = 2

\* C3: a run with food parameters outside the triangular domain fails with
\* InvalidParameter before any random draw, and produces no batch and no summary.
C3_InvalidFoodFailsBeforeDraws ==
    (run_sim /\ FoodInvalid /\ pc # "start") =>
        /\ exception = "InvalidParameter"
        /\ draws = {}
        /\ total_biaya = <<>> /\ df.Status = <<>>
        /\ safe_budget_95 = Unset /\ verdict = "none"

\* C4: the Status recorded with a trial is 'Darurat' exactly when the trial's shock
\* occurred, for every non-negative magnitude (0 included).
C4_StatusIffShock ==
    (Totalled /\ biaya_darurat_val >= 0) =>
        \A i \in Trials : (df.Status[i] = "Darurat") <=> is_darurat[i]

\* C5: for valid parameters every sequence of the batch has exactly N entries: the
\* three uniforms, the five cost components, the totals and the shock flags.
C5_BatchLengthIsN ==
    (run_sim /\ ~FoodInvalid) =>
        /\ "multivariate_normal" \in draws =>
              Len(u_makan) = N_SIMULATIONS /\ Len(u_trans) = N_SIMULATIONS
              /\ Len(u_life) = N_SIMULATIONS
        /\ "normal" \in draws => Len(biaya_kost) = N_SIMULATIONS
        /\ Composed =>
              Len(biaya_makan) = N_SIMULATIONS /\ Len(biaya_transport) = N_SIMULATIONS
              /\ Len(biaya_lifestyle) = N_SIMULATIONS
        /\ Totalled =>
              Len(biaya_darurat) = N_SIMULATIONS /\ Len(is_darurat) = N_SIMULATIONS
              /\ Len(total_biaya) = N_SIMULATIONS
              /\ Len(df.Total) = N_SIMULATIONS /\ Len(df.Status) = N_SIMULATIONS

\* C5 witness: a completed run with valid parameters and the largest trial count
C5_Witness ==
    /\ run_sim /\ ~FoodInvalid /\ pc = "done" /\ N_SIMULATIONS = MaxN
    /\ Len(df.Total) = MaxN /\ Len(u_makan) = MaxN

\* the totals of the batch that are numbers
TotalValues == {total_biaya[i].v : i \in {j \in Trials : ~total_biaya[j].nan}}

\* budgets on either side of every total of the batch, and the widget's values; a
\* probe stays Rp 750 away from every total, as BUDGET does (NoNearTie), so that the
\* count at the probe is the count on the unrounded totals
ProbeBudgets ==
    {b \in Budgets \cup {v - 750 : v \in TotalValues} \cup {v + 750 : v \in TotalValues} :
        \A v \in TotalValues : Dist(v, b) >= 750}

\* C6: over the same per-trial totals, a budget b1 <= b2 gives an exceedance
\* probability at least as large as b2 does.
C6_ExceedanceMonotoneInBudget ==
    KpiDone =>
        \A b \in ProbeBudgets :
            /\ b <= BUDGET => ProbGagal(total_biaya, b, N_SIMULATIONS).num >= prob_gagal.num
            /\ b >= BUDGET => ProbGagal(total_biaya, b, N_SIMULATIONS).num <= prob_gagal.num

\* C6 witness: a smaller budget of the widget strictly raises the reported probability
C6_Witness ==
    /\ KpiDone
    /\ \E b \in Budgets :
          b < BUDGET /\ ProbGagal(total_biaya, b, N_SIMULATIONS).num > prob_gagal.num
                     /\ prob_gagal.num > 0

\* the totals of the same run (same draws, same other parameters) under shock
\* probability p and shock magnitude m
TotalsWith(p, m) ==
    TotalBiaya(biaya_kost, biaya_makan, biaya_transport, biaya_lifestyle,
               BiayaDarurat(IsDarurat(rand, p), m))

\* C7: with the draws fixed, raising a non-negative shock magnitude, or raising the
\* shock probability under a non-negative magnitude, never lowers safe_budget_95.
C7_SafeBudgetMonotoneInShock ==
    (KpiDone /\ biaya_darurat_val >= 0) =>
        /\ \A m \in Magnitudes \cup {biaya_darurat_val + 250000} :
              m >= biaya_darurat_val =>
                 ~FLt(Percentile95(TotalsWith(prob_darurat, m)), safe_budget_95)
        /\ \A p \in Probs \cup {prob_darurat + 1} :
              p >= prob_darurat =>
                 ~FLt(Percentile95(TotalsWith(p, biaya_darurat_val)), safe_budget_95)

\* C7 witness: a run where a larger magnitude and a larger probability each raise
\* safe_budget_95 by at least Rp 750 (75000 hundredths), more than the rounding
C7_Witness ==
    /\ KpiDone /\ biaya_darurat_val >= 0 /\ ~safe_budget_95.nan
    /\ \E m \in Magnitudes \cup {biaya_darurat_val + 250000} :
          /\ m > biaya_darurat_val
          /\ FGe(Percentile95(TotalsWith(prob_darurat, m)), Num(safe_budget_95.v + 75000))
    /\ \E p \in Probs :
          /\ p > prob_darurat
          /\ FGe(Percentile95(TotalsWith(p, biaya_darurat_val)), Num(safe_budget_95.v + 75000))

\* C8: a run that reaches the verdict shows the error banner exactly when gap < 0 and
\* the success banner exactly when gap >= 0.
C8_VerdictMatchesGap ==
    verdict # "none" =>
        /\ (verdict = "error") <=> FLt(gap, Num(0))
        /\ (verdict = "success") <=> FGe(gap, Num(0))

\* C9: for a trial count that is a multiple of 20, the success banner comes with an
\* exceedance probability of at most 5 per cent, and the error banner with at least
\* one trial above the budget, so with a probability above 0.
C9_HeadlinesAgree ==
    (N_SIMULATIONS % 20 = 0) =>
        /\ verdict = "success" => prob_gagal.num <= 5 * prob_gagal.den
        /\ verdict = "error" =>
              /\ prob_gagal.num > 0
              /\ \E i \in Trials : FGt(total_biaya[i], Num(BUDGET))

\* C9 witness: the success banner with exactly 5 per cent of the trials above budget
C9_Witness ==
    /\ N_SIMULATIONS % 20 = 0
    /\ verdict = "success" /\ FGe(gap, Num(0))
    /\ prob_gagal.num = 5 * prob_gagal.den

\* C10: in the gap < 0 branch the fraction handed to the progress bar is a defined
\* value in [0, 1], for every budget the input accepts.
C10_CoverageInUnitInterval ==
    verdict = "error" =>
        /\ persen_terpenuhi.k = "num"
        /\ 0 <= persen_terpenuhi.num
        /\ persen_terpenuhi.num <= persen_terpenuhi.den

====
